---- MODULE Spec2Model ----
(***************************************************************************)
(* Streaming anomaly detector: baseline calibration, the websocket         *)
(* ingestion loop (connect / subscribe / listen / reconnect), the z-score  *)
(* detector, the streaming alert gate and the per-symbol trend state.      *)
(* Prices, means, deviations and thresholds are integers; a z-score is the *)
(* fraction num/den so that comparisons against a threshold are exact.     *)
(***************************************************************************)
EXTENDS Integers, Sequences, FiniteSets, TLC

\* ------------------------------------------------------------------ bounds
\* Events the environment may inflict in one run: inbound frames, lost or
\* closed connections, failed connects or sends, rewrites of the threshold
\* file, the shutdown signal.
MaxEvents == 3
\* The interpreter's recursion limit, counted in nested reconnect() calls
\* (sys.getrecursionlimit() is 1000 in CPython; scaled down here).
RecursionLimit == 2
\* Worker processes of the pool (num_processes, at most cpu_count()).
MaxWorkers == 3
\* Longest frame handed to get_last_action on its own.
MaxSeries == 4

\* ------------------------------------------------------------ value domains
Symbols == {"A", "B"}
UnknownSymbol == "Z"
Prices == {3, 10, 16}

\* Python None for a number, NaN for a float, None for last_action.
None == 0 - 1
NaNPrice == 0 - 2
NoAction == "NoAction"

Abs(x) == IF x < 0 THEN 0 - x ELSE x
Max(a, b) == IF a >= b THEN a ELSE b
Min(a, b) == IF a <= b THEN a ELSE b

\* A z-score: NaN, or the fraction num/den with den > 0.
NaN == [nan |-> TRUE, num |-> 0, den |-> 1]
Frac(n, d) == [nan |-> FALSE, num |-> n, den |-> d]
\* A comparison that lets equality through.
AbsGe(z, thresh) == ~z.nan /\ Abs(z.num) >= thresh * z.den

\* abs(z) > thresh as floating point evaluates it: False for NaN.
AbsGt(z, thresh) == ~z.nan /\ Abs(z.num) > thresh * z.den

\* The last value of the trend z-score series: a number, NaN (constant
\* trend), or absent (the series is empty, result['zscore_trend'] is None).
TrendNum(v) == [kind |-> "num", v |-> v]
TrendNaN == [kind |-> "nan", v |-> 0]
TrendNone == [kind |-> "none", v |-> 0]
TrendZs == {TrendNum(0 - 3), TrendNum(1), TrendNaN, TrendNone}
TrendAbsGt(tz, thresh) == tz.kind = "num" /\ Abs(tz.v) > thresh

\* ------------------------------------------------------- threshold store
Absent == 0 - 1
DefaultSigmaThresh == 30
DefaultTrendThresh == 2
EmptyConfig == [sigma_thresh |-> Absent, zscore_trend_thresh |-> Absent]
ConfigLow == [sigma_thresh |-> 5, zscore_trend_thresh |-> 2]
ConfigHigh == [sigma_thresh |-> 30, zscore_trend_thresh |-> 4]
\* What the threshold file can hold: a JSON object, text that is no JSON,
\* or nothing at all (the file does not exist).
FileMissing == "missing"
FileGarbage == "garbage"
FileJson(c) == [kind |-> "json", config |-> c]
FileStates == {[kind |-> FileMissing, config |-> EmptyConfig],
               [kind |-> FileGarbage, config |-> EmptyConfig],
               FileJson(ConfigLow), FileJson(ConfigHigh)}

load_config(file) == IF file.kind = "json" THEN file.config ELSE EmptyConfig

ConfigGet(cfg, key, default) ==
    IF cfg[key] = Absent THEN default ELSE cfg[key]

\* ------------------------------------------------------------ calibration
\* Historical bars of one symbol: rows of (trading day, close), or a fetch
\* that raised.  Day numbers index the trading calendar.
Row(d, c) == [day |-> d, close |-> c]
FetchFailed == <<Row(0 - 1, 0)>>
Good1 == <<Row(1, 9), Row(1, 11)>>
Good2 == <<Row(1, 8), Row(1, 12), Row(2, 10)>>
Hist(a, b) == [s \in Symbols |-> IF s = "A" THEN a ELSE b]
\* The fetch results of a run, and nyse.valid_days(start, end) for the
\* fetch window.
Histories == { Hist(Good1, <<Row(1, 9)>>), Hist(Good2, FetchFailed),
               Hist(<<Row(1, 10), Row(1, 10)>>, << >>),
               Hist(<<Row(1, 9), Row(2, 11)>>, <<Row(1, 9), Row(1, NaNPrice)>>) }
Calendars == { <<1, 2>>, <<2>> }

RECURSIVE SumSeq(_)
SumSeq(s) == IF s = << >> THEN 0 ELSE Head(s) + SumSeq(Tail(s))

RECURSIVE SelectRows(_, _)
SelectRows(rows, d) ==
    IF rows = << >> THEN << >>
    ELSE IF Head(rows).day = d
         THEN <<Head(rows).close>> \o SelectRows(Tail(rows), d)
         ELSE SelectRows(Tail(rows), d)

Closes(rows) == [i \in 1..Len(rows) |-> rows[i].close]
HasNaN(s) == \E i \in 1..Len(s) : s[i] = NaNPrice

ISqrt(n) == CHOOSE r \in 0..n : r * r <= n /\ (r + 1) * (r + 1) > n

\* np.mean / np.std (population) of the baseline closes; NaN propagates.
np_mean(s) == IF HasNaN(s) THEN NaNPrice ELSE SumSeq(s) \div Len(s)
np_std(s) ==
    IF HasNaN(s) THEN NaNPrice
    ELSE LET m == np_mean(s)
             sq == [i \in 1..Len(s) |-> (s[i] - m) * (s[i] - m)]
         IN ISqrt(SumSeq(sq) \div Len(s))

SymbolData(sym, rows) ==
    [symbol |-> sym, baseline_mean |-> 0, baseline_std |-> 1,
     full_prices |-> Closes(rows)]

\* initialize_symbol_data without the test of the standard deviation.
ToRemoveKeepsFlat(rows, valid_days) ==
    IF Len(rows) < 2 THEN TRUE
    ELSE IF Len(valid_days) <= 1 THEN TRUE
    ELSE Len(SelectRows(rows, valid_days[Len(valid_days) - 1])) < 2

\* The per-symbol decision of initialize_symbol_data: TRUE when the symbol
\* is put into symbols_to_remove.
ToRemove(rows, valid_days) ==
    IF Len(rows) < 2 THEN TRUE
    ELSE IF Len(valid_days) <= 1 THEN TRUE
    ELSE LET baseline_prices == SelectRows(rows, valid_days[Len(valid_days) - 1])
         IN IF Len(baseline_prices) < 2 THEN TRUE
            ELSE LET baseline_std == np_std(baseline_prices)
                     last_price == baseline_prices[Len(baseline_prices)]
                 IN baseline_std = 0 \/ baseline_std = NaNPrice
                    \/ last_price = NaNPrice

Calibrated(sym, rows, valid_days) ==
    LET baseline_prices == SelectRows(rows, valid_days[Len(valid_days) - 1])
    IN [symbol |-> sym,
        baseline_mean |-> np_mean(baseline_prices),
        baseline_std |-> np_std(baseline_prices),
        full_prices |-> Closes(rows)]

\* initialize_symbol_data without the deletion of the removed symbols'
\* series: they leave the list only.
initialize_data_keeps_series(syms, hist, valid_days) ==
    LET loaded == {s \in syms : hist[s] # FetchFailed /\ hist[s] # << >>}
        symbols_to_remove == {s \in loaded : ToRemove(hist[s], valid_days)}
    IN [symbols |-> syms \ symbols_to_remove,
        symbol_data |-> [s \in loaded |->
                            IF s \in symbols_to_remove
                            THEN SymbolData(s, hist[s])
                            ELSE Calibrated(s, hist[s], valid_days)]]

\* SymbolDataManager.initialize_data followed by initialize_symbol_data:
\* the symbol list and the series map they leave.  A symbol whose fetch
\* raised or returned no bars gets no SymbolData and is never put into
\* symbols_to_remove.
initialize_data(syms, hist, valid_days) ==
    LET loaded == {s \in syms : hist[s] # FetchFailed /\ hist[s] # << >>}
        symbols_to_remove == {s \in loaded : ToRemove(hist[s], valid_days)}
    IN [symbols |-> syms \ symbols_to_remove,
        symbol_data |-> [s \in loaded \ symbols_to_remove |->
                            Calibrated(s, hist[s], valid_days)]]

\* --------------------------------------------------------------- detector
LambdaMultiplier1Min == 12
NA == 0 - 1

SetMax(S) == CHOOSE x \in S : \A y \in S : y <= x

\* get_last_action taking the last trough whenever there is one.
get_last_action_prefers_buy(peaks, troughs, prices) ==
    IF troughs = {} /\ peaks = {}
    THEN [type |-> "None", price |-> 0, samples_ago |-> NA]
    ELSE LET sell == troughs = {}
             last_action == IF sell THEN SetMax(peaks) ELSE SetMax(troughs)
         IN [type |-> IF sell THEN "Sell" ELSE "Buy",
             price |-> prices[last_action + 1],
             samples_ago |-> Len(prices) - last_action - 1]

\* get_last_action over the peak and trough positions (0-based) of the
\* cycle series; prices is the close column of the same frame.
get_last_action(peaks, troughs, prices) ==
    IF troughs = {} /\ peaks = {}
    THEN [type |-> "None", price |-> 0, samples_ago |-> NA]
    ELSE LET sell == peaks # {} /\ (troughs = {} \/ SetMax(peaks) > SetMax(troughs))
             last_action == IF sell THEN SetMax(peaks) ELSE SetMax(troughs)
         IN [type |-> IF sell THEN "Sell" ELSE "Buy",
             price |-> prices[last_action + 1],
             samples_ago |-> Len(prices) - last_action - 1]

\* What the decomposition (hpfilter, zscore, find_peaks) hands back for a
\* series of n samples: interior peak and trough positions, disjoint, and
\* the last trend z-score.  Whether the z-score column counts as empty
\* (process_data then returns None for it) is left to the library: every
\* outcome the detector has a branch for is admitted.
Decompositions(n) ==
    { [peaks |-> p, troughs |-> t, zscore_trend |-> z] :
        p \in SUBSET (1..(n - 2)), t \in SUBSET (1..(n - 2)), z \in TrendZs }

DisjointExtrema(dec) == dec.peaks \cap dec.troughs = {}

\* ZScoreProcessor.process_data: works on a local copy of the closes.
zscore_process_data(data, new_price, dec) ==
    LET prices == Append(data.full_prices, new_price)
        num_samples == Len(prices)
        last_action == get_last_action(dec.peaks, dec.troughs, prices)
    IN [lambda |-> LambdaMultiplier1Min * num_samples,
        zscore_trend |-> dec.zscore_trend,
        action |-> last_action.type,
        price |-> last_action.price,
        samples_ago |-> last_action.samples_ago]

\* The z-score without the test for a flat baseline.
zscore_value_unguarded(data, new_price) ==
    Frac(new_price - data.baseline_mean, Max(data.baseline_std, 1))

\* ZScoreProcessor.process, lines 16-19.
zscore_value_of(data, new_price) ==
    IF data.baseline_std = 0 THEN NaN
    ELSE Frac(new_price - data.baseline_mean, data.baseline_std)

\* ZScoreProcessor.process.  enriched = FALSE stands for the short result
\* dict {zscore, alert, latest_price}, which has no 'symbol' key.
process(data, new_price, cfg, dec) ==
    LET zscore_value == zscore_value_of(data, new_price)
        sigma_thresh == ConfigGet(cfg, "sigma_thresh", DefaultSigmaThresh)
        zscore_trend_thresh == ConfigGet(cfg, "zscore_trend_thresh", DefaultTrendThresh)
        alert == IF ~zscore_value.nan THEN AbsGt(zscore_value, sigma_thresh) ELSE FALSE
        processed_data == zscore_process_data(data, new_price, dec)
    IN IF AbsGt(zscore_value, sigma_thresh)
       THEN [enriched |-> TRUE,
             zscore |-> zscore_value,
             alert |-> alert,
             latest_price |-> new_price,
             symbol |-> data.symbol,
             num_samples |-> Len(data.full_prices),
             lambda |-> processed_data.lambda,
             action |-> processed_data.action,
             price |-> processed_data.price,
             samples_ago |-> processed_data.samples_ago,
             zscore_trend |-> processed_data.zscore_trend,
             zscore_trend_alert |->
                 IF processed_data.zscore_trend.kind # "none"
                 THEN TrendAbsGt(processed_data.zscore_trend, zscore_trend_thresh)
                 ELSE FALSE]
       ELSE [enriched |-> FALSE,
             zscore |-> zscore_value,
             alert |-> alert,
             latest_price |-> new_price,
             symbol |-> "",
             num_samples |-> 0,
             lambda |-> 0,
             action |-> "",
             price |-> 0,
             samples_ago |-> NA,
             zscore_trend |-> TrendNone,
             zscore_trend_alert |-> FALSE]

\* ---------------------------------------------------------------- fan-out
\* What a call hands back: a list of results, or an exception.
Returned(results) == [raised |-> FALSE, exc |-> "", results |-> results]
Raised(exc) == [raised |-> TRUE, exc |-> exc, results |-> << >>]

\* The loop over a chunk (ParallelProcessor._process_chunk, and the else
\* branch of DataStreamManager.process_data): one result per SymbolData
\* whose symbol has a new price, in the order of the chunk.
RECURSIVE process_chunk(_, _, _, _)
process_chunk(chunk, new_prices, cfg, decs) ==
    IF chunk = << >> THEN << >>
    ELSE LET symbol_data == Head(chunk)
             rest == process_chunk(Tail(chunk), new_prices, cfg, decs)
         IN IF symbol_data.symbol \in DOMAIN new_prices
            THEN <<process(symbol_data, new_prices[symbol_data.symbol], cfg,
                           decs[symbol_data.symbol])>> \o rest
            ELSE rest

\* np.array_split: n contiguous chunks, the first Len % n one longer.
array_split(ary, n) ==
    LET q == Len(ary) \div n
        r == Len(ary) % n
        start(i) == (i - 1) * q + Min(i - 1, r)
        size(i) == q + (IF i <= r THEN 1 ELSE 0)
    IN [i \in 1..n |-> SubSeq(ary, start(i) + 1, start(i) + size(i))]

RECURSIVE Flatten(_)
Flatten(lists) == IF lists = << >> THEN << >> ELSE Head(lists) \o Flatten(Tail(lists))

\* pool.map pickles its arguments.  Each argument tuple holds the
\* ZScoreProcessor, whose config_manager holds the started watch thread
\* (ConfigManager.__init__), and a Thread cannot be pickled.
ProcessorHoldsThread == TRUE
Picklable(holds_thread) == ~holds_thread

\* ParallelProcessor.process_symbols.
process_symbols(symbol_data_list, new_prices, cfg, decs, num_processes) ==
    LET chunks == array_split(symbol_data_list, num_processes)
    IN IF ~Picklable(ProcessorHoldsThread) THEN Raised("TypeError")
       ELSE Returned(Flatten([i \in 1..num_processes |->
                                 process_chunk(chunks[i], new_prices, cfg, decs)]))

\* ------------------------------------------------------------ trend state
NewTrend == [last_action |-> NoAction, extreme_price |-> None,
             day_high |-> None, day_low |-> None]

\* log_alert with the extreme price overwritten by every alert.
log_alert_resets_always(current_trend, result) ==
    [trend |-> [current_trend EXCEPT !.extreme_price = result.latest_price,
                                     !.last_action = result.action],
     trend_change |-> FALSE, alert |-> TRUE, raised |-> FALSE]

\* StreamProcessor.log_alert on one symbol's trend record.  Formatting a
\* None with a float format raises TypeError: the TREND CHANGE line
\* formats day_high and day_low, the ALERT line formats zscore_trend.  A
\* raise leaves the statements after it unexecuted.
log_alert(current_trend, result) ==
    LET changed == current_trend.last_action # result.action
        announce == changed /\ current_trend.extreme_price # None
        raise_change == announce /\ (current_trend.day_high = None
                                     \/ current_trend.day_low = None)
        updated == IF changed
                   THEN [current_trend EXCEPT !.extreme_price = result.latest_price,
                                              !.last_action = result.action]
                   ELSE current_trend
        raise_alert == result.zscore_trend.kind = "none"
    IN IF raise_change
       THEN [trend |-> current_trend, trend_change |-> FALSE,
             alert |-> FALSE, raised |-> TRUE]
       ELSE [trend |-> updated, trend_change |-> announce,
             alert |-> ~raise_alert, raised |-> raise_alert]

\* update_price_trends with the day range restarted on an action change.
update_price_trends_resets_day(trend_data, current_price, action) ==
    IF trend_data.last_action = action
    THEN [trend_data EXCEPT !.day_high = Max(@, current_price),
                            !.day_low = IF @ = None THEN current_price
                                        ELSE Min(@, current_price)]
    ELSE [last_action |-> action, extreme_price |-> current_price,
          day_high |-> current_price, day_low |-> current_price]

\* SymbolDataManager.update_price_trends.
update_price_trends(trend_data, current_price, action) ==
    LET t1 == IF trend_data.last_action = action
              THEN IF action = "buy"
                   THEN IF trend_data.extreme_price = None
                           \/ current_price < trend_data.extreme_price
                        THEN [trend_data EXCEPT !.extreme_price = current_price]
                        ELSE trend_data
                   ELSE IF action = "sell"
                   THEN IF trend_data.extreme_price = None
                           \/ current_price > trend_data.extreme_price
                        THEN [trend_data EXCEPT !.extreme_price = current_price]
                        ELSE trend_data
                   ELSE trend_data
              ELSE [trend_data EXCEPT !.last_action = action,
                                      !.extreme_price = current_price]
        t2 == IF t1.day_high = None \/ current_price > t1.day_high
              THEN [t1 EXCEPT !.day_high = current_price] ELSE t1
    IN IF t2.day_low = None \/ current_price < t2.day_low
       THEN [t2 EXCEPT !.day_low = current_price] ELSE t2

\* The gate of StreamProcessor.process_data (line 93).
gate(result, cfg) ==
    LET sigma_thresh == ConfigGet(cfg, "sigma_thresh", DefaultSigmaThresh)
        zscore_trend_thresh == ConfigGet(cfg, "zscore_trend_thresh", DefaultTrendThresh)
    IN AbsGt(result.zscore, sigma_thresh)
       /\ (result.zscore_trend.kind = "none"
           \/ TrendAbsGt(result.zscore_trend, zscore_trend_thresh))

\* Whether StreamProcessor.process_data gives a result to log_alert: the
\* short result has no 'symbol' and raises KeyError before the gate.
reaches_log_alert(result, cfg) == result.enriched /\ gate(result, cfg)

\* --------------------------------------------------------------- messages
\* An inbound frame: text that is no JSON, JSON that is no object, or an
\* object with optional 'T', 'S', 'p' and 'c' ("" and None: key missing).
NotJson == [json |-> "invalid", T |-> "", S |-> "", p |-> None, c |-> None]
NotObject == [json |-> "nonobject", T |-> "", S |-> "", p |-> None, c |-> None]
Obj(T, S, p, c) == [json |-> "object", T |-> T, S |-> S, p |-> p, c |-> c]
Messages ==
    {NotJson, NotObject}
    \cup { Obj("t", "A", p, None) : p \in Prices \cup {None} }
    \cup { Obj("b", "A", None, c) : c \in Prices \cup {None} }
    \cup { Obj("t", "B", 16, None), Obj("b", "B", None, 16),
           Obj("t", UnknownSymbol, 16, None), Obj("b", UnknownSymbol, None, 16) }
    \cup { Obj("", "A", 16, 16), Obj("t", "", 16, 16), Obj("x", "A", 16, 16) }

\* handle_message up to the call of process_data: the (symbol, price) pair
\* handed on, or nothing, with the exception raised on the way, if any.
Nothing(exc) == [symbol |-> "", price |-> None, exc |-> exc]
Dispatch(kind, m) ==
    IF m.json = "invalid" THEN Nothing("JSONDecodeError")
    ELSE IF m.json = "nonobject" THEN Nothing("AttributeError")
    ELSE IF m.T = "" \/ m.S = "" THEN Nothing("")
    ELSE IF kind = "trades" /\ m.T = "t"
         THEN IF m.p = None THEN Nothing("KeyError")
              ELSE [symbol |-> m.S, price |-> m.p, exc |-> ""]
    ELSE IF kind = "bars" /\ m.T = "b"
         THEN IF m.c = None THEN Nothing("KeyError")
              ELSE [symbol |-> m.S, price |-> m.c, exc |-> ""]
    ELSE Nothing("")

\* handle_message without its second except clause.
handle_message_catches_json_only(exc) == exc = "JSONDecodeError"

\* The except clauses of handle_message: JSONDecodeError, then Exception.
handle_message_catches(exc) == TRUE

\* ------------------------------------------------------------------ state
VARIABLES
    stream_type,            \* 'trades' or 'bars'
    symbols,                \* SymbolDataManager.symbols
    symbol_data,            \* SymbolDataManager.symbol_data
    price_trends,           \* SymbolDataManager.price_trends
    last_processed_price,   \* SymbolDataManager.last_processed_price
    config,                 \* ConfigManager.config
    cfg_file,               \* the threshold file on disk
    cfg_dirty,              \* file mtime > ConfigManager.last_modified
    pc,                     \* where the ingestion coroutine stands
    in_reconnect,           \* connect/subscribe were called by reconnect()
    websocket,              \* StreamProcessor.websocket (0: None)
    open_conns,             \* connections opened and not closed
    conn_count,             \* connections opened so far
    subs,                   \* subscription messages sent, per connection
    frames,                 \* reconnect() calls on the coroutine stack
    events,                 \* environment events so far
    pending,                \* the detector's result awaiting the gate
    last,                   \* record of the last handled message
    corr,                   \* action of the last result given to log_alert
    parallel_processor,     \* the worker pool: none, open or closed
    fan,                    \* a batch evaluated with and without the pool
    call,                   \* one call of a function of the program, alone
    requested,              \* the symbols --file / --symbols resolve to
    credentials             \* config.API_KEY and config.API_SECRET are set

vars == <<stream_type, symbols, symbol_data, price_trends, last_processed_price,
          config, cfg_file, cfg_dirty, pc, in_reconnect, websocket,
          open_conns, conn_count, subs, frames, events, pending, last, corr,
          parallel_processor, fan, call, requested, credentials>>

data_vars == <<symbols, symbol_data, price_trends, last_processed_price>>
cfg_vars == <<config, cfg_file, cfg_dirty>>
conn_vars == <<in_reconnect, websocket, open_conns, conn_count, subs, frames>>
msg_vars == <<pending, last, corr>>
start_vars == <<requested, credentials>>
fixed_vars == <<stream_type, parallel_processor, fan, call, start_vars>>

NoConn == 0
NoPool == "none"
NoCall == [fn |-> "none"]
NoFan == [called |-> FALSE, num_processes |-> 0,
          serial |-> Returned(<< >>), parallel |-> Returned(<< >>)]
NoResult == process([symbol |-> "", baseline_mean |-> 0, baseline_std |-> 0,
                     full_prices |-> << >>], 0, EmptyConfig,
                    [peaks |-> {}, troughs |-> {}, zscore_trend |-> TrendNone])

NoLast == [kind |-> "none", msg |-> NotJson, at |-> 0, result |-> NoResult,
           sigma_thresh |-> 0, zscore_trend_thresh |-> 0,
           entered |-> FALSE, alert |-> FALSE, trend_change |-> FALSE,
           prev_trend |-> NewTrend, prev_corr |-> NoAction,
           prev_kind |-> "none", prev_zscore |-> NaN]

Init ==
    /\ stream_type \in {"trades", "bars"}
    /\ symbols = {}
    /\ symbol_data = [s \in {} |-> SymbolData(s, << >>)]
    /\ price_trends = [s \in Symbols |-> NewTrend]
    /\ last_processed_price = [s \in Symbols |-> None]
    /\ cfg_file \in FileStates
    /\ config = load_config(cfg_file)
    /\ cfg_dirty = FALSE
    /\ pc = "Starting"
    /\ in_reconnect = FALSE
    /\ websocket = NoConn
    /\ open_conns = {}
    /\ conn_count = 0
    /\ subs = [c \in 1..(MaxEvents + 1) |-> << >>]
    /\ events = 0
    /\ pending = NoResult
    /\ last = NoLast
    /\ corr = [s \in Symbols |-> NoAction]
    /\ frames = << >>
    /\ parallel_processor = NoPool
    /\ fan = NoFan
    /\ call = NoCall
    /\ requested \in {Symbols, {}}
    /\ credentials \in BOOLEAN

\* ---------------------------------------------------------------- startup
\* main() without its validation of symbols and credentials.
MainSkipsValidation ==
    /\ pc = "Starting"
    /\ \E use_multiprocessing \in BOOLEAN :
         /\ pc' = "Disconnected"
         /\ symbols' = requested
         /\ parallel_processor' = IF use_multiprocessing THEN "open" ELSE NoPool
    /\ UNCHANGED <<stream_type, fan, call, start_vars, symbol_data, price_trends,
                   last_processed_price, cfg_vars, conn_vars, events, msg_vars>>

\* main.py from its imports up to manager.run().  Importing config_manager
\* constructs the store: load_config treats a missing file as {}, but the
\* os.path.getmtime that follows raises FileNotFoundError and the program
\* ends before main().  Otherwise the symbols named on the command line are
\* resolved and the credentials looked up; either missing, main() logs the
\* ValueError and returns.  Otherwise the pool is made when asked for and
\* the managers are constructed.
Main ==
    /\ pc = "Starting"
    /\ \E use_multiprocessing \in BOOLEAN :
         IF cfg_file.kind = FileMissing
         THEN /\ pc' = "Crashed"
              /\ UNCHANGED <<symbols, parallel_processor>>
         ELSE IF requested = {} \/ ~credentials
         THEN /\ pc' = "Aborted"
              /\ UNCHANGED <<symbols, parallel_processor>>
         ELSE /\ pc' = "Disconnected"
              /\ symbols' = requested
              /\ parallel_processor' = IF use_multiprocessing THEN "open" ELSE NoPool
    /\ UNCHANGED <<stream_type, fan, call, start_vars, symbol_data, price_trends,
                   last_processed_price, cfg_vars, conn_vars, events, msg_vars>>

\* ------------------------------------------------------------ calibration
\* DataStreamManager.run up to the start of the stream.
InitializeData ==
    /\ pc = "Disconnected"
    /\ \E hist \in Histories, valid_days \in Calendars :
         LET out == initialize_data(symbols, hist, valid_days)
         IN /\ symbol_data' = out.symbol_data
            /\ symbols' = out.symbols
    /\ pc' = "Connecting"
    /\ UNCHANGED <<fixed_vars, price_trends, last_processed_price, cfg_vars,
                   conn_vars, events, msg_vars>>

\* ------------------------------------------------------------- connection
\* DataStreamManager.cleanup: close the current websocket, if any, and
\* shut the worker pool down, if there is one.
cleanup(conns, ws) == IF ws # NoConn THEN conns \ {ws} ELSE conns
shutdown(pool) == IF pool = NoPool THEN NoPool ELSE "closed"

\* The reconnect() frames on the coroutine stack, oldest first, each marked
\* with the except block that called it: "listen" (listen() called from
\* run() or from the try body of the frame below) or "reconnect" (the
\* except block of the frame below).
FromListen == "listen"
FromReconnect == "reconnect"

\* The newest frame that was called from listen().
LastFromListen(s) == SetMax({k \in 1..Len(s) : s[k] = FromListen})

\* `await self.reconnect()` from an except block of listen() or of
\* reconnect() itself: one more coroutine frame.  At the recursion limit
\* the call raises RecursionError inside that except block.  Raised in
\* listen(), it is caught by the reconnect() whose try body called
\* listen(), and the back-off sleep starts.  Raised in reconnect(), it
\* leaves every frame that stands in an except block, down to the newest
\* listen(): when run() called that one, run() ends and cleanup runs;
\* otherwise the reconnect() below catches it and sleeps.
reconnect(conns, site) ==
    IF Len(frames) < RecursionLimit
    THEN /\ frames' = Append(frames, site)
         /\ in_reconnect' = TRUE
         /\ open_conns' = conns
         /\ parallel_processor' = parallel_processor
         /\ pc' = "Connecting"
    ELSE IF site = FromListen
    THEN /\ frames' = frames
         /\ in_reconnect' = in_reconnect
         /\ open_conns' = conns
         /\ parallel_processor' = parallel_processor
         /\ pc' = "Backoff"
    ELSE IF LastFromListen(frames) = 1
    THEN /\ frames' = frames
         /\ in_reconnect' = in_reconnect
         /\ open_conns' = cleanup(conns, websocket)
         /\ parallel_processor' = shutdown(parallel_processor)
         /\ pc' = "Failed"
    ELSE /\ frames' = SubSeq(frames, 1, LastFromListen(frames) - 1)
         /\ in_reconnect' = in_reconnect
         /\ open_conns' = conns
         /\ parallel_processor' = parallel_processor
         /\ pc' = "Backoff"

\* StreamProcessor.connect succeeds: a new connection replaces websocket.
ConnectOk ==
    /\ pc = "Connecting"
    /\ conn_count' = conn_count + 1
    /\ websocket' = conn_count + 1
    /\ open_conns' = open_conns \cup {conn_count + 1}
    /\ pc' = "Subscribed"
    /\ UNCHANGED <<fixed_vars, data_vars, cfg_vars, in_reconnect, subs, frames,
                   events, msg_vars>>

\* connect with a retry of its own: every failure sleeps and tries again.
ConnectFailRetries ==
    /\ pc = "Connecting"
    /\ events < MaxEvents
    /\ events' = events + 1
    /\ pc' = "Backoff"
    /\ UNCHANGED <<fixed_vars, data_vars, cfg_vars, conn_vars, msg_vars>>

\* StreamProcessor.connect raises.  Called from run() the error reaches
\* DataStreamManager.run, which cleans up and re-raises; called from
\* reconnect() it is caught there and the back-off sleep starts.
ConnectFail ==
    /\ pc = "Connecting"
    /\ events < MaxEvents
    /\ events' = events + 1
    /\ IF in_reconnect
       THEN /\ pc' = "Backoff"
            /\ UNCHANGED <<open_conns, parallel_processor>>
       ELSE /\ pc' = "Failed"
            /\ open_conns' = cleanup(open_conns, websocket)
            /\ parallel_processor' = shutdown(parallel_processor)
    /\ UNCHANGED <<stream_type, fan, call, start_vars, data_vars, cfg_vars,
                   in_reconnect, websocket, conn_count, subs, frames, msg_vars>>

\* subscribe taking its early return although a websocket exists.
SubscribeSkipsSend ==
    /\ pc = "Subscribed"
    /\ pc' = "Listening"
    /\ UNCHANGED <<fixed_vars, data_vars, cfg_vars, conn_vars, events, msg_vars>>

\* StreamProcessor.subscribe sends the subscription for the current symbols
\* (or returns without sending when there is no websocket); listen() is
\* entered next.
SubscribeOk ==
    /\ pc = "Subscribed"
    /\ subs' = IF websocket = NoConn THEN subs
               ELSE [subs EXCEPT ![websocket] = Append(@, symbols)]
    /\ pc' = "Listening"
    /\ UNCHANGED <<fixed_vars, data_vars, cfg_vars, in_reconnect, websocket,
                   open_conns, conn_count, frames, events, msg_vars>>

\* websocket.send raises inside subscribe.
SubscribeFail ==
    /\ pc = "Subscribed"
    /\ websocket # NoConn
    /\ events < MaxEvents
    /\ events' = events + 1
    /\ IF in_reconnect
       THEN /\ pc' = "Backoff"
            /\ UNCHANGED <<open_conns, parallel_processor>>
       ELSE /\ pc' = "Failed"
            /\ open_conns' = cleanup(open_conns, websocket)
            /\ parallel_processor' = shutdown(parallel_processor)
    /\ UNCHANGED <<stream_type, fan, call, start_vars, data_vars, cfg_vars, in_reconnect, websocket,
                   conn_count, subs, frames, msg_vars>>

\* asyncio.sleep(5) in reconnect() is over: reconnect() calls itself.
BackoffElapsed ==
    /\ pc = "Backoff"
    /\ reconnect(open_conns, FromReconnect)
    /\ UNCHANGED <<stream_type, fan, call, start_vars, data_vars, cfg_vars, websocket, conn_count, subs,
                   events, msg_vars>>

\* listen(): the iteration raises ConnectionClosed (abnormal close, protocol
\* error); the handler calls reconnect().
ConnectionClosedError ==
    /\ pc = "Listening"
    /\ websocket # NoConn
    /\ events < MaxEvents
    /\ events' = events + 1
    /\ reconnect(open_conns \ {websocket}, FromListen)
    /\ UNCHANGED <<stream_type, fan, call, start_vars, data_vars, cfg_vars, websocket, conn_count, subs,
                   msg_vars>>

\* listen(): the iteration raises another exception; the connection is not
\* closed by the handler, which calls reconnect().
ListenError ==
    /\ pc = "Listening"
    /\ events < MaxEvents
    /\ events' = events + 1
    /\ reconnect(open_conns, FromListen)
    /\ UNCHANGED <<stream_type, fan, call, start_vars, data_vars, cfg_vars, websocket, conn_count, subs,
                   msg_vars>>

\* listen(): the peer closes the connection cleanly.  `async for` over a
\* websocket ends without raising on a normal closure, so listen() returns,
\* every enclosing reconnect() and run() return, and cleanup runs.
CleanClose ==
    /\ pc = "Listening"
    /\ websocket # NoConn
    /\ events < MaxEvents
    /\ events' = events + 1
    /\ open_conns' = open_conns \ {websocket}
    /\ parallel_processor' = shutdown(parallel_processor)
    /\ pc' = "Returned"
    /\ UNCHANGED <<stream_type, fan, call, start_vars, data_vars, cfg_vars, in_reconnect, websocket,
                   conn_count, subs, frames, msg_vars>>

\* main(): the signal handler cancels every task of the loop, which takes
\* effect at the pending await.  A message handler has no suspension point
\* and is not cut.
Shutdown ==
    /\ pc \in {"Disconnected", "Connecting", "Subscribed", "Listening", "Backoff"}
    /\ events < MaxEvents
    /\ events' = events + 1
    /\ pc' = "Cancelled"
    /\ UNCHANGED <<fixed_vars, data_vars, cfg_vars, conn_vars, msg_vars>>

\* Teardown that forgets the connection and the pool.
TeardownSkipsCleanup ==
    /\ pc = "Cancelled"
    /\ pc' = "Stopped"
    /\ UNCHANGED <<fixed_vars, data_vars, cfg_vars, conn_vars, events, msg_vars>>

\* The cancelled task resumes: CancelledError, which no except Exception
\* catches, leaves the pending await and every frame above it; the finally
\* of DataStreamManager.run and then the finally of main clean up.
Teardown ==
    /\ pc = "Cancelled"
    /\ open_conns' = cleanup(open_conns, websocket)
    /\ parallel_processor' = shutdown(parallel_processor)
    /\ pc' = "Stopped"
    /\ UNCHANGED <<stream_type, fan, call, start_vars, data_vars, cfg_vars, in_reconnect, websocket,
                   conn_count, subs, frames, events, msg_vars>>

\* -------------------------------------------------------- threshold store
\* Another process rewrites, corrupts or deletes the threshold file.
WriteFile ==
    /\ events < MaxEvents
    /\ pc \notin {"Stopped", "Failed", "Returned", "Aborted", "Crashed"}
    /\ \E f \in FileStates \ {cfg_file} : cfg_file' = f
    /\ cfg_dirty' = TRUE
    /\ events' = events + 1
    /\ UNCHANGED <<fixed_vars, data_vars, config, pc, conn_vars, msg_vars>>

\* watch_config forgetting to load: the poll notes the new mtime only.
WatchConfigKeepsOld ==
    /\ pc \notin {"Stopped", "Failed", "Returned", "Aborted", "Crashed"}
    /\ cfg_file.kind # FileMissing
    /\ cfg_dirty
    /\ cfg_dirty' = FALSE
    /\ UNCHANGED <<fixed_vars, data_vars, config, cfg_file, pc, conn_vars, events,
                   msg_vars>>

\* ConfigManager.watch_config, one poll that finds a newer file.  (A poll
\* of a missing file logs FileNotFoundError; a poll of an unchanged file
\* does nothing.)
WatchConfig ==
    /\ pc \notin {"Stopped", "Failed", "Returned", "Aborted", "Crashed"}
    /\ cfg_file.kind # FileMissing
    /\ cfg_dirty
    /\ config' = load_config(cfg_file)
    /\ cfg_dirty' = FALSE
    /\ UNCHANGED <<fixed_vars, data_vars, cfg_file, pc, conn_vars, events,
                   msg_vars>>

\* ------------------------------------------------------ message handling
\* DataStreamManager.process_data: the pool when there is one, else the
\* loop over the batch.
Detect(symbol_data_list, new_prices, cfg, decs, pool, num_processes) ==
    IF pool # NoPool
    THEN process_symbols(symbol_data_list, new_prices, cfg, decs, num_processes)
    ELSE Returned(process_chunk(symbol_data_list, new_prices, cfg, decs))

\* How a handler ends: an exception that handle_message catches is logged
\* and listen() takes the next frame; one it does not catch reaches the
\* except clause of listen(), which calls reconnect().
Finish(exc) ==
    IF exc = "" \/ handle_message_catches(exc)
    THEN /\ pc' = "Listening"
         /\ UNCHANGED <<frames, in_reconnect, open_conns, parallel_processor>>
    ELSE reconnect(open_conns, FromListen)

\* The batch StreamProcessor.process_data builds for one price.
Batch(symbol) ==
    IF symbol \in DOMAIN symbol_data THEN <<symbol_data[symbol]>> ELSE << >>

\* What self.processor can hand back for the batch of one price: one
\* outcome for each decomposition of the series and each size of the pool.
Outcomes(symbol, price) ==
    { Detect(Batch(symbol), [s \in {symbol} |-> price], config,
             [s \in {symbol} |-> dec], parallel_processor, num_processes) :
        dec \in { x \in Decompositions(IF Batch(symbol) = << >> THEN 2
                                       ELSE Len(Batch(symbol)[1].full_prices) + 1) :
                    DisjointExtrema(x) },
        num_processes \in 1..(IF parallel_processor = NoPool THEN 1 ELSE MaxWorkers) }

\* listen() that starts handle_message as a task of its own and goes on
\* to the next message: a message is taken while a result awaits the gate.
ReceiveInterleaved ==
    /\ pc \in {"Listening", "Handling"}
    /\ websocket # NoConn
    /\ events < MaxEvents
    /\ events' = events + 1
    /\ \E m \in Messages :
         LET d == Dispatch(stream_type, m)
             Drop(kind) == /\ last' = [NoLast EXCEPT !.kind = kind, !.msg = m,
                                                     !.at = events + 1]
                           /\ pending' = NoResult
         IN IF d.symbol = ""
            THEN Drop("dropped") /\ Finish(d.exc)
            ELSE \E out \in Outcomes(d.symbol, d.price) :
                   /\ LET result == IF out.results = << >> THEN NoResult
                                    ELSE out.results[1]
                      IN IF out.raised
                         THEN Drop("raised") /\ Finish(out.exc)
                         ELSE IF out.results = << >>
                         THEN Drop("dropped") /\ Finish("")
                         ELSE IF result.enriched
                         THEN /\ pending' = result
                              /\ last' = last
                              /\ pc' = "Handling"
                              /\ UNCHANGED <<frames, in_reconnect, open_conns,
                                             parallel_processor>>
                         ELSE /\ pending' = NoResult
                              /\ last' = [NoLast EXCEPT !.kind = "short", !.msg = m,
                                                        !.result = result]
                              /\ Finish("KeyError")
    /\ UNCHANGED <<stream_type, fan, call, start_vars, data_vars, cfg_vars, websocket,
                   conn_count, subs, corr>>

\* listen() takes the next frame and handle_message runs up to the return
\* of the detector.  Nothing further happens when the frame is dropped, the
\* pool call raises, the symbol has no SymbolData (empty batch), or the
\* result is the short dict: result['symbol'] raises KeyError.
Receive ==
    /\ pc = "Listening"
    /\ websocket # NoConn
    /\ events < MaxEvents
    /\ events' = events + 1
    /\ \E m \in Messages :
         LET d == Dispatch(stream_type, m)
             Drop(kind) == /\ last' = [NoLast EXCEPT !.kind = kind, !.msg = m,
                                                     !.at = events + 1]
                           /\ pending' = NoResult
         IN IF d.symbol = ""
            THEN Drop("dropped") /\ Finish(d.exc)
            ELSE \E out \in Outcomes(d.symbol, d.price) :
                   /\ LET result == IF out.results = << >> THEN NoResult
                                    ELSE out.results[1]
                      IN IF out.raised
                         THEN Drop("raised") /\ Finish(out.exc)
                         ELSE IF out.results = << >>
                         THEN Drop("dropped") /\ Finish("")
                         ELSE IF result.enriched
                         THEN /\ pending' = result
                              /\ last' = last
                              /\ pc' = "Handling"
                              /\ UNCHANGED <<frames, in_reconnect, open_conns,
                                             parallel_processor>>
                         ELSE /\ pending' = NoResult
                              /\ last' = [NoLast EXCEPT !.kind = "short", !.msg = m,
                                                        !.result = result]
                              /\ Finish("KeyError")
    /\ UNCHANGED <<stream_type, fan, call, start_vars, data_vars, cfg_vars, websocket,
                   conn_count, subs, corr>>

\* The loop body of StreamProcessor.process_data for the enriched result:
\* the gate reads the thresholds again, log_alert runs when the gate opens,
\* and last_processed_price is stored unless log_alert raised.
ProcessResult ==
    /\ pc = "Handling"
    /\ LET result == pending
           symbol == result.symbol
           open == gate(result, config)
           out == IF open THEN log_alert(price_trends[symbol], result)
                  ELSE [trend |-> price_trends[symbol], trend_change |-> FALSE,
                        alert |-> FALSE, raised |-> FALSE]
       IN /\ price_trends' = [price_trends EXCEPT ![symbol] = out.trend]
          /\ last_processed_price' =
                 IF out.raised THEN last_processed_price
                 ELSE [last_processed_price EXCEPT ![symbol] = result.latest_price]
          /\ last' = [kind |-> "gated", msg |-> NotJson, at |-> 0, result |-> result,
                      sigma_thresh |-> ConfigGet(config, "sigma_thresh", DefaultSigmaThresh),
                      zscore_trend_thresh |->
                          ConfigGet(config, "zscore_trend_thresh", DefaultTrendThresh),
                      entered |-> open, alert |-> out.alert,
                      trend_change |-> out.trend_change,
                      prev_trend |-> price_trends[symbol],
                      prev_corr |-> corr[symbol],
                      prev_kind |-> last.kind, prev_zscore |-> last.result.zscore]
          /\ corr' = IF open THEN [corr EXCEPT ![symbol] = result.action] ELSE corr
          /\ Finish(IF out.raised THEN "TypeError" ELSE "")
    /\ pending' = NoResult
    /\ UNCHANGED <<stream_type, fan, call, start_vars, symbols, symbol_data, cfg_vars,
                   websocket, conn_count, subs, events>>

\* ---------------------------------------------------------- specification
Next ==
    \/ Main
    \/ InitializeData
    \/ ConnectOk
    \/ ConnectFail
    \/ SubscribeOk
    \/ SubscribeFail
    \/ BackoffElapsed
    \/ Receive
    \/ ProcessResult
    \/ ConnectionClosedError
    \/ ListenError
    \/ CleanClose
    \/ Shutdown
    \/ Teardown
    \/ WriteFile
    \/ WatchConfig

Spec == Init /\ [][Next]_vars

\* The event loop resumes a cancelled task at its next iteration.  (One
\* stream type and one start-up file, for the liveness check.)
LiveInit == Init /\ stream_type = "trades" /\ cfg_file = FileJson(ConfigLow)
LiveSpec == LiveInit /\ [][Next]_vars /\ WF_vars(Teardown)

TypeOK ==
    /\ pc \in {"Starting", "Aborted", "Crashed", "Disconnected", "Connecting",
               "Subscribed", "Listening", "Handling", "Backoff", "Returned",
               "Failed", "Cancelled", "Stopped"}
    /\ parallel_processor \in {NoPool, "open", "closed"}
    /\ symbols \subseteq Symbols
    /\ DOMAIN symbol_data \subseteq Symbols
    /\ websocket \in 0..(MaxEvents + 1)
    /\ events \in 0..MaxEvents
    /\ Len(frames) <= RecursionLimit

\* ----------------------------------------------------------------- claims
\* The symbol of the last result that went through the gate.
LastSymbol == last.result.symbol
Gated == last.kind = "gated"
Corroborated == Gated /\ last.entered

C2_ActionChangeResetsExtreme ==
    (Corroborated /\ last.result.action # last.prev_trend.last_action) =>
        /\ price_trends[LastSymbol].extreme_price = last.result.latest_price
        /\ price_trends[LastSymbol].last_action = last.result.action

\* C3: after log_alert has processed a result whose action equals the
\* stored last action, the extreme price is min(stored, price) for Buy and
\* max(stored, price) for Sell.
C3_SameActionExtendsExtreme ==
    (Corroborated /\ last.result.action = last.prev_trend.last_action) =>
        /\ last.result.action = "Buy" =>
             price_trends[LastSymbol].extreme_price =
                 Min(last.prev_trend.extreme_price, last.result.latest_price)
        /\ last.result.action = "Sell" =>
             price_trends[LastSymbol].extreme_price =
                 Max(last.prev_trend.extreme_price, last.result.latest_price)

\* C4: when two consecutive results given to log_alert for one symbol have
\* the same action, the second leaves the extreme price no higher (Buy) and
\* no lower (Sell) than the first left it.
C4_ExtremeMonotone ==
    (Corroborated /\ last.prev_corr = last.result.action) =>
        /\ last.result.action = "Buy" =>
             price_trends[LastSymbol].extreme_price <= last.prev_trend.extreme_price
        /\ last.result.action = "Sell" =>
             price_trends[LastSymbol].extreme_price >= last.prev_trend.extreme_price

\* C4 witness: a second Buy in a row, at a price above the stored extreme.
C4_Witness ==
    /\ Corroborated
    /\ last.prev_corr = "Buy"
    /\ last.result.action = "Buy"
    /\ last.prev_trend.extreme_price # None
    /\ last.result.latest_price > last.prev_trend.extreme_price

\* C5: every result given to log_alert sets day_high to max(day_high,
\* price) and day_low to min(day_low, price), the price itself when unset.
C5_DayRangeUpdated ==
    Corroborated =>
        /\ price_trends[LastSymbol].day_high =
               IF last.prev_trend.day_high = None THEN last.result.latest_price
               ELSE Max(last.prev_trend.day_high, last.result.latest_price)
        /\ price_trends[LastSymbol].day_low =
               IF last.prev_trend.day_low = None THEN last.result.latest_price
               ELSE Min(last.prev_trend.day_low, last.result.latest_price)

\* ---------------------------------------------------- trend state alone
\* SymbolDataManager.update_price_trends called with any symbol, price and
\* action, on a manager as constructed.  It is the only code that writes
\* day_high and day_low; the streaming path above never calls it.
TrendActions == {"buy", "sell"}

UpdatePriceTrends ==
    /\ \E s \in Symbols, current_price \in Prices, action \in TrendActions :
         price_trends' = [price_trends EXCEPT
                             ![s] = update_price_trends(@, current_price, action)]
    /\ UNCHANGED <<fixed_vars, symbols, symbol_data, last_processed_price,
                   cfg_vars, pc, conn_vars, events, msg_vars>>

TrendInit == Init /\ stream_type = "trades" /\ cfg_file = FileJson(ConfigLow)
TrendNext == UpdatePriceTrends
TrendSpec == TrendInit /\ [][TrendNext]_vars

\* C6: once day_high and day_low of a symbol have values, no call lowers
\* day_high, raises day_low or unsets either, whatever the action.
C6_DayRangeMonotone ==
    [][\A s \in Symbols :
          (price_trends[s].day_high # None /\ price_trends[s].day_low # None) =>
              /\ price_trends'[s].day_high >= price_trends[s].day_high
              /\ price_trends'[s].day_low <= price_trends[s].day_low
              /\ price_trends'[s].day_low # None]_vars

\* C6 witness: a range 3..16 is kept through a change of action at 10.
C6_Witness ==
    /\ price_trends["A"].day_high = 16
    /\ price_trends["A"].day_low = 3
    /\ price_trends["A"].last_action = "sell"
    /\ price_trends["A"].extreme_price = 10

\* ------------------------------------------------------ connection claims
\* C7: every step that leaves Listening lands in Connecting, or in
\* Cancelled on shutdown.
C7_LossReconnects ==
    [][(pc = "Listening" /\ pc' \notin {"Listening", "Handling"}) =>
           pc' \in {"Connecting", "Cancelled"}]_vars

\* C8: whenever the machine listens, it does so on the newest connection,
\* which is open and on which exactly one subscription, carrying the
\* current symbol set, has been sent.
C8_ListeningAfterSubscribe ==
    pc \in {"Listening", "Handling"} =>
        /\ websocket # NoConn
        /\ websocket = conn_count
        /\ websocket \in open_conns
        /\ subs[websocket] = <<symbols>>

\* C8 witness: listening again on a second connection.
C8_Witness ==
    /\ pc = "Listening"
    /\ conn_count = 2
    /\ symbols # {}
    /\ subs[1] = <<symbols>>
    /\ subs[2] = <<symbols>>

\* C9: after every failed reconnect attempt the back-off ends in another
\* attempt (or in shutdown), whatever the number of failures so far.
C9_RetryAfterEveryFailure ==
    [][pc = "Backoff" => pc' \in {"Backoff", "Connecting", "Cancelled"}]_vars

\* A frame the protocol does not allow: no JSON, no object, no type or
\* symbol tag, an unknown type, or no price / closing price.
Malformed(m) ==
    \/ m.json # "object"
    \/ m.T = "" \/ m.S = ""
    \/ m.T \notin {"t", "b"}
    \/ m.T = "t" /\ m.p = None
    \/ m.T = "b" /\ m.c = None

\* C10: handling a malformed frame changes no series, trend state, symbol
\* set or last-processed price and leaves the machine listening on the
\* same open connection.
C10_MalformedDropped ==
    [][(last' # last /\ last'.kind = "dropped" /\ Malformed(last'.msg)) =>
           /\ UNCHANGED <<symbols, symbol_data, price_trends, last_processed_price>>
           /\ pc' = "Listening"
           /\ websocket' = websocket
           /\ open_conns' = open_conns
           /\ websocket' \in open_conns']_vars

\* C10 witness: a trade without a price was dropped after an alert had set
\* trend state, and the machine still listens.
C10_Witness ==
    /\ last.kind = "dropped"
    /\ stream_type = "trades"
    /\ last.msg.T = "t" /\ last.msg.S = "A" /\ last.msg.p = None
    /\ price_trends["A"].extreme_price # None
    /\ pc = "Listening"

\* ---------------------------------------------------------- fan-out alone
\* DataStreamManager.process_data called on any batch of calibrated series,
\* once through the pool and once through its own loop, with one threshold
\* snapshot; one call in a behaviour.
FanData(s) == Calibrated(s, Good1, <<1, 2>>)
FanBatches == { << >>, <<FanData("A")>>, <<FanData("B")>>,
                <<FanData("A"), FanData("B")>>, <<FanData("B"), FanData("A")>> }
FanPrices == UNION { [S -> Prices] : S \in SUBSET Symbols }
FanDecompositions == { x \in Decompositions(Len(Good1) + 1) : DisjointExtrema(x) }

ProcessSymbols ==
    /\ ~fan.called
    /\ \E symbol_data_list \in FanBatches, new_prices \in FanPrices,
          cfg \in {ConfigLow, ConfigHigh}, decs \in [Symbols -> FanDecompositions],
          num_processes \in 1..MaxWorkers :
         fan' = [called |-> TRUE, num_processes |-> num_processes,
                 serial |-> Detect(symbol_data_list, new_prices, cfg, decs,
                                   NoPool, num_processes),
                 parallel |-> Detect(symbol_data_list, new_prices, cfg, decs,
                                     "open", num_processes)]
    /\ UNCHANGED <<stream_type, parallel_processor, call, start_vars, data_vars, cfg_vars, pc,
                   conn_vars, events, msg_vars>>

FanInit == Init /\ stream_type = "trades" /\ cfg_file = FileJson(ConfigLow)
FanNext == ProcessSymbols
FanOutSpec == FanInit /\ [][FanNext]_vars

\* C11: for every batch, threshold snapshot and worker count, the pool
\* hands back the list of results the single-threaded loop hands back.
C11_FanOutEqualsSerial ==
    fan.called => fan.parallel = fan.serial

\* -------------------------------------------------------- threshold claims
\* The thresholds of the file, once a poll has loaded it.
Polled == ~cfg_dirty /\ cfg_file.kind = "json"
FileSigma == ConfigGet(cfg_file.config, "sigma_thresh", DefaultSigmaThresh)
FileTrend == ConfigGet(cfg_file.config, "zscore_trend_thresh", DefaultTrendThresh)
\* A step that handles one frame up to the detector, and one that gates.
ReceiveStep == pc = "Listening" /\ events' # events /\ cfg_file' = cfg_file
                 /\ pc' \in {"Listening", "Handling"}
GateStep == pc = "Handling" /\ pc' # "Handling"

ReadersGetDefaults ==
    /\ ConfigGet(config, "sigma_thresh", DefaultSigmaThresh) = DefaultSigmaThresh
    /\ ConfigGet(config, "zscore_trend_thresh", DefaultTrendThresh) = DefaultTrendThresh

\* C13: a missing or unparsable threshold file never stops the store, and
\* once polling has nothing left to do for such a file (the file is missing,
\* so that a poll changes nothing, or the poll of the newer file has run)
\* readers obtain the built-in defaults.
C13_BadFileKeepsRunningOnDefaults ==
    /\ pc # "Crashed"
    /\ (cfg_file.kind # "json" /\ (cfg_file.kind = FileMissing \/ ~cfg_dirty)
          /\ pc # "Starting")
         => ReadersGetDefaults

\* --------------------------------------------------------- shutdown claims
Emitted == <<price_trends, corr, last, last_processed_price>>

\* C14: from the shutdown signal on no connection attempt is made and the
\* state of the alerts is left as it was; the run reaches teardown, after
\* which the live connection is closed, the pool is shut down and nothing
\* starts again.
C14_ShutdownTearsDown ==
    /\ [][pc' \in {"Cancelled", "Stopped"} =>
             /\ pc \in {"Cancelled", "Stopped"} => pc' \in {pc, "Stopped"}
             /\ conn_count' = conn_count
             /\ Emitted' = Emitted]_vars
    /\ [][pc = "Stopped" => pc' = "Stopped"]_vars
    /\ [](pc = "Stopped" => websocket \notin open_conns /\ parallel_processor # "open")
    /\ (pc = "Cancelled" ~> pc = "Stopped")

\* C14 witness: shut down after an alert, on a second connection (after a
\* reconnect), with the connection closed.
C14_Witness ==
    /\ pc = "Stopped"
    /\ last.alert /\ Corroborated
    /\ websocket = 2
    /\ websocket \notin open_conns

\* ------------------------------------------------------ calibration alone
\* What a fetch can give for one symbol: enough rows on the baseline day,
\* one row, a failure, no bars, a flat baseline, one baseline row, a NaN
\* last close, a NaN earlier close.
HistRows == { Good1, Good2, <<Row(1, 9)>>, FetchFailed, << >>,
              <<Row(1, 10), Row(1, 10)>>, <<Row(1, 9), Row(2, 11)>>,
              <<Row(1, 9), Row(1, NaNPrice)>>, <<Row(1, NaNPrice), Row(1, 9)>> }

InitializeDataAlone ==
    /\ call = NoCall
    /\ \E syms \in SUBSET Symbols \ {{}}, hist \in [Symbols -> HistRows],
          valid_days \in Calendars :
         call' = [fn |-> "initialize_data", symbols |-> syms, hist |-> hist,
                  valid_days |-> valid_days,
                  out |-> initialize_data(syms, hist, valid_days)]
    /\ UNCHANGED <<stream_type, parallel_processor, fan, start_vars, data_vars, cfg_vars, pc,
                   conn_vars, events, msg_vars>>

CalibInit == Init /\ stream_type = "trades" /\ cfg_file = FileJson(ConfigLow)
CalibNext == InitializeDataAlone
CalibSpec == CalibInit /\ [][CalibNext]_vars

Calibrating == call.fn = "initialize_data"
Fetched(rows) == IF rows = FetchFailed THEN << >> ELSE rows
Active(s) == s \in call.out.symbols /\ s \in DOMAIN call.out.symbol_data
Dropped(s) == s \notin call.out.symbols /\ s \notin DOMAIN call.out.symbol_data

\* The baseline session of a fetch window: the trading day before its last.
HasBaselineSession(valid_days) == Len(valid_days) >= 2
BaselineRows(rows, valid_days) ==
    { i \in 1..Len(rows) : rows[i].day = valid_days[Len(valid_days) - 1] }

\* The conditions of eligibility, stated on the fetched rows.
Eligible(rows, valid_days) ==
    /\ Len(rows) >= 2
    /\ HasBaselineSession(valid_days)
    /\ Cardinality(BaselineRows(rows, valid_days)) >= 2
    /\ LET idx == BaselineRows(rows, valid_days)
           last_i == CHOOSE i \in idx : \A j \in idx : j <= i
       IN /\ \A i \in idx : rows[i].close # NaNPrice
          /\ \E i, j \in idx : rows[i].close # rows[j].close
          /\ rows[last_i].close # NaNPrice

\* C15: after calibration a requested symbol is in the symbol list with a
\* series exactly when it is eligible; a symbol with one historical row is
\* in neither the list nor the map; calibration returns both whatever it
\* drops.
C15_ActiveIffEligible ==
    Calibrating =>
        \A s \in call.symbols :
            /\ Active(s) <=> Eligible(Fetched(call.hist[s]), call.valid_days)
            /\ Len(Fetched(call.hist[s])) = 1 => Dropped(s)

\* C15 witness: of two requested symbols the one with two baseline rows
\* stays and the one with a single row is dropped.
C15_Witness ==
    /\ Calibrating
    /\ call.symbols = Symbols
    /\ call.hist["A"] = Good1 /\ call.hist["B"] = <<Row(1, 9)>>
    /\ call.valid_days = <<1, 2>>
    /\ Active("A") /\ Dropped("B")

\* C16: a symbol whose fetch failed or gave no bars is, after calibration,
\* neither in the symbol list (from which the subscription is built) nor
\* in the series map.
C16_FailedFetchDropped ==
    Calibrating =>
        \A s \in call.symbols : Fetched(call.hist[s]) = << >> => Dropped(s)

\* ----------------------------------------------------------- fetch alone
StopAfterAttempt == 5

\* What the attempts of one symbol's fetch meet, in order: bars, a reply
\* without bars, an error tenacity retries (aiohttp.ClientError, which
\* covers HTTP 429 and raise_for_status, or asyncio.TimeoutError), or any
\* other exception.
Retryable == {"ClientError", "TimeoutError"}
Terminal == {"bars", "no bars", "KeyError"}
Repeat(x, n) == [i \in 1..n |-> x]
Plans == { Repeat(r, k) \o <<t>> :
             r \in Retryable, k \in 0..StopAfterAttempt, t \in Terminal }

\* A retry decorator without stop: it goes on while errors are retryable.
RECURSIVE attempts_without_stop(_, _)
attempts_without_stop(plan, attempt) ==
    IF plan[attempt] \notin Retryable THEN attempt
    ELSE attempts_without_stop(plan, attempt + 1)

\* The retry decorator of fetch_symbol_data: the number of the attempt
\* after which it stops, counting from attempt number `attempt`.
RECURSIVE attempts(_, _)
attempts(plan, attempt) ==
    IF plan[attempt] \notin Retryable \/ attempt >= StopAfterAttempt THEN attempt
    ELSE attempts(plan, attempt + 1)

\* fetch_symbol_data under its retry decorator, from attempt number
\* `attempt` on: what its last attempt met decides the outcome.
fetch_symbol_data(symbol, plan, attempt) ==
    LET met == plan[attempts(plan, attempt)]
    IN IF met = "bars" THEN Returned([symbol |-> symbol, empty |-> FALSE])
       ELSE IF met = "no bars" THEN Returned([symbol |-> symbol, empty |-> TRUE])
       ELSE IF met \notin Retryable THEN Raised(met)
       ELSE Raised("RetryError")

\* asyncio.gather without return_exceptions: the first exception is the
\* call's.
fetch_historical_data_fails_fast(syms, plans) ==
    LET results == [s \in syms |-> fetch_symbol_data(s, plans[s], 1)]
    IN IF \E s \in syms : results[s].raised
       THEN Raised((CHOOSE s \in syms : results[s].raised))
       ELSE Returned({ results[s].results : s \in syms })

\* fetch_historical_data: gather(return_exceptions=True), exceptions
\* filtered out of the list.
fetch_historical_data(syms, plans) ==
    LET results == [s \in syms |-> fetch_symbol_data(s, plans[s], 1)]
    IN Returned({ results[s].results : s \in { t \in syms : ~results[t].raised } })

FetchHistoricalData ==
    /\ call = NoCall
    /\ \E syms \in SUBSET Symbols, plans \in [Symbols -> Plans] :
         call' = [fn |-> "fetch_historical_data", symbols |-> syms,
                  plans |-> plans, out |-> fetch_historical_data(syms, plans),
                  attempts |-> [s \in syms |-> attempts(plans[s], 1)],
                  each |-> [s \in syms |-> fetch_symbol_data(s, plans[s], 1)]]
    /\ UNCHANGED <<stream_type, parallel_processor, fan, start_vars, data_vars, cfg_vars, pc,
                   conn_vars, events, msg_vars>>

FetchInit == Init /\ stream_type = "trades" /\ cfg_file = FileJson(ConfigLow)
FetchNext == FetchHistoricalData
FetchSpec == FetchInit /\ [][FetchNext]_vars

Fetching == call.fn = "fetch_historical_data"
\* A fetch succeeds when one of its first StopAfterAttempt attempts gets a
\* reply and no attempt before it met an error that is not retried.
Succeeded(plan) ==
    \E i \in 1..StopAfterAttempt :
        /\ i <= Len(plan)
        /\ plan[i] \in {"bars", "no bars"}
        /\ \A j \in 1..(i - 1) : plan[j] \in Retryable

\* C17: whichever fetches fail, fetch_historical_data returns, and its
\* result has one entry for each symbol whose fetch succeeded and no other.
C17_FailuresIsolated ==
    Fetching =>
        /\ ~call.out.raised
        /\ { r.symbol : r \in call.out.results } =
               { s \in call.symbols : Succeeded(call.plans[s]) }
        /\ Cardinality(call.out.results) =
               Cardinality({ s \in call.symbols : Succeeded(call.plans[s]) })

\* C17 witness: A runs out of retries, B gets its bars on the last attempt,
\* and the result is B's entry alone.
C17_Witness ==
    /\ Fetching
    /\ call.symbols = Symbols
    /\ call.plans["A"] = Repeat("TimeoutError", StopAfterAttempt) \o <<"bars">>
    /\ call.plans["B"] = Repeat("ClientError", StopAfterAttempt - 1) \o <<"bars">>
    /\ call.out.results = {[symbol |-> "B", empty |-> FALSE]}

\* ---------------------------------------------------------- start-up claims
ValidationFails == requested = {} \/ ~credentials

\* C18: when no symbol is resolved or the credentials are missing, the run
\* never gets past start-up: no series is calibrated, no connection is
\* opened and no subscription is sent.
C18_InvalidStartAborts ==
    ValidationFails =>
        /\ pc \in {"Starting", "Aborted", "Crashed"}
        /\ symbols = {} /\ DOMAIN symbol_data = {}
        /\ conn_count = 0 /\ websocket = NoConn /\ open_conns = {}
        /\ \A c \in DOMAIN subs : subs[c] = << >>

\* C18 witness: symbols resolved, credentials missing, run aborted.
C18_Witness ==
    /\ pc = "Aborted"
    /\ requested = Symbols
    /\ ~credentials

\* --------------------------------------------------------- detector alone
ConfigThree == [sigma_thresh |-> 3, zscore_trend_thresh |-> 2]
DetData == { [symbol |-> "A", baseline_mean |-> m, baseline_std |-> sd,
              full_prices |-> <<9, 11>>] : m \in {10, 100}, sd \in {0, 1, 2} }
DetPrices == Prices \cup {94, 100, 107}
DetConfigs == {EmptyConfig, ConfigThree, ConfigLow, ConfigHigh}

ProcessAlone ==
    /\ call = NoCall
    /\ \E data \in DetData, new_price \in DetPrices, cfg \in DetConfigs,
          dec \in FanDecompositions :
         LET out == process(data, new_price, cfg, dec)
         IN call' = [fn |-> "process", data |-> data, new_price |-> new_price,
                     cfg |-> cfg, out |-> out,
                     alerted |-> reaches_log_alert(out, cfg)]
    /\ UNCHANGED <<stream_type, parallel_processor, fan, start_vars, data_vars,
                   cfg_vars, pc, conn_vars, events, msg_vars>>

DetInit == Init /\ stream_type = "trades" /\ cfg_file = FileJson(ConfigLow)
DetNext == ProcessAlone
DetectorSpec == DetInit /\ [][DetNext]_vars

Processing == call.fn = "process"
SigmaOf(cfg) == ConfigGet(cfg, "sigma_thresh", DefaultSigmaThresh)

\* C19: with a baseline of standard deviation 0, whatever the price and
\* the thresholds, process returns a NaN z-score, a false alert flag and no
\* enrichment, and the result does not reach log_alert.
C19_FlatBaselineNoAlert ==
    (Processing /\ call.data.baseline_std = 0) =>
        /\ call.out.zscore.nan
        /\ ~call.out.alert
        /\ ~call.out.enriched
        /\ ~call.alerted

\* C19 witness: a flat baseline at 10 and a price of 16 under the lowest
\* threshold.
C19_Witness ==
    /\ Processing
    /\ call.data.baseline_std = 0 /\ call.data.baseline_mean = 10
    /\ call.new_price = 16
    /\ call.cfg = ConfigThree
    /\ call.out.zscore.nan

\* C20: the alert flag is set, and the result enriched, exactly when the
\* distance of the price from the mean exceeds sigma_thresh standard
\* deviations; at exactly sigma_thresh (mean 100, std 2, threshold 3, price
\* 94) neither happens.
C20_SigmaTestStrict ==
    (Processing /\ call.data.baseline_std > 0) =>
        LET exceeds == Abs(call.new_price - call.data.baseline_mean) >
                           SigmaOf(call.cfg) * call.data.baseline_std
        IN /\ call.out.alert <=> exceeds
           /\ call.out.enriched <=> exceeds
           /\ (call.data.baseline_mean = 100 /\ call.data.baseline_std = 2
                  /\ call.cfg = ConfigThree /\ call.new_price = 94)
                => ~call.out.alert /\ ~call.out.enriched

\* C20 witness: mean 100, std 2, threshold 3 and price 94, z = -3.
C20_Witness ==
    /\ Processing
    /\ call.data.baseline_mean = 100 /\ call.data.baseline_std = 2
    /\ call.cfg = ConfigThree /\ call.new_price = 94
    /\ call.out.zscore = Frac(0 - 6, 2)
    /\ ~call.out.enriched

\* -------------------------------------------------- get_last_action alone
\* A frame of n closes, all different, and any disjoint peak and trough
\* positions in it.
SeriesOf(n) == [i \in 1..n |-> 20 + i * i]

GetLastAction ==
    /\ call = NoCall
    /\ \E n \in 3..MaxSeries :
         \E peaks \in SUBSET (0..(n - 1)), troughs \in SUBSET (0..(n - 1)) :
            /\ peaks \cap troughs = {}
            /\ call' = [fn |-> "get_last_action", peaks |-> peaks, troughs |-> troughs,
                        prices |-> SeriesOf(n),
                        out |-> get_last_action(peaks, troughs, SeriesOf(n))]
    /\ UNCHANGED <<stream_type, parallel_processor, fan, start_vars, data_vars,
                   cfg_vars, pc, conn_vars, events, msg_vars>>

ActionInit == Init /\ stream_type = "trades" /\ cfg_file = FileJson(ConfigLow)
ActionNext == GetLastAction
ActionSpec == ActionInit /\ [][ActionNext]_vars

Classifying == call.fn = "get_last_action"
LastOf(S) == CHOOSE x \in S : \A y \in S : y <= x

\* C21: get_last_action returns Sell exactly when there is a peak and
\* either no trough or the last peak lies after the last trough, Buy
\* exactly when there is a trough and that is not so, None with price 0 and
\* no samples-ago exactly when there is neither; for Sell and Buy the price
\* is the close at the extremum and samples-ago its distance from the end.
C21_LastActionClassified ==
    Classifying =>
        LET P == call.peaks
            T == call.troughs
            n == Len(call.prices)
            sell == P # {} /\ (T = {} \/ LastOf(P) > LastOf(T))
            buy == T # {} /\ ~sell
        IN /\ call.out.type = "Sell" <=> sell
           /\ call.out.type = "Buy" <=> buy
           /\ call.out.type = "None" <=> (P = {} /\ T = {})
           /\ call.out.type = "None" => call.out.price = 0 /\ call.out.samples_ago = NA
           /\ sell => /\ call.out.samples_ago = n - 1 - LastOf(P)
                      /\ call.out.price = call.prices[LastOf(P) + 1]
           /\ buy => /\ call.out.samples_ago = n - 1 - LastOf(T)
                     /\ call.out.price = call.prices[LastOf(T) + 1]

\* C21 witness: peaks at 0 and 2, a trough at 1, four samples: Sell, one
\* sample ago.
C21_Witness ==
    /\ Classifying
    /\ call.peaks = {0, 2} /\ call.troughs = {1}
    /\ Len(call.prices) = 4
    /\ call.out.type = "Sell"
    /\ call.out.samples_ago = 1

\* ------------------------------------------------- last-processed claims
\* C22: once a price update of a symbol with a series has been processed,
\* last_processed_price of the symbol is the price of that update, for the
\* short result (threshold not crossed) and the enriched one alike.
C22_LastPriceRecorded ==
    /\ last.kind = "short" =>
           last_processed_price[last.msg.S] = last.result.latest_price
    /\ Gated => last_processed_price[LastSymbol] = last.result.latest_price

\* Evaluating a price equal to the symbol's last-processed price.
DuplicateTick == pending.latest_price = last_processed_price[pending.symbol]

\* C23: an update carrying the symbol's last-processed price is not given
\* to the detector, and no alert is emitted for it.
C23_DuplicateTickSuppressed ==
    /\ [](pc = "Handling" => ~DuplicateTick)
    /\ [][(GateStep /\ DuplicateTick) => ~last'.alert]_vars

\* --------------------------------------------------- first-connect claims
\* C24: when the connection attempt made by run() fails, run() ends with
\* the error: nothing was subscribed, nothing is listened to, and no
\* further attempt follows.
C24_FirstConnectFailureSurfaces ==
    /\ [][(pc = "Connecting" /\ ~in_reconnect
              /\ pc' \notin {"Connecting", "Subscribed", "Cancelled"}) =>
             pc' = "Failed"]_vars
    /\ []((pc = "Failed" /\ conn_count = 0) =>
             /\ websocket = NoConn /\ open_conns = {}
             /\ \A c \in DOMAIN subs : subs[c] = << >>)
    /\ [][pc = "Failed" => (pc' = "Failed" /\ conn_count' = conn_count)]_vars

\* C24 witness: calibrated symbols, the first connect failed, the run
\* ended without a connection.
C24_Witness ==
    /\ pc = "Failed"
    /\ conn_count = 0
    /\ DOMAIN symbol_data # {}
    /\ ~in_reconnect

\* ----------------------------------------------------------- tracker claims
\* A result given to log_alert with a trend z-score beyond the threshold.
HandedToTracker == Corroborated /\ last.result.zscore_trend.kind = "num"

\* C25: every corroborated result given to log_alert ends in its alert
\* being emitted, whatever trend state the symbol had before.
C25_EveryCorroboratedAlerts ==
    HandedToTracker => last.alert

\* C26: a corroborated result whose action differs from the stored last
\* action of a symbol that has alerted before makes log_alert emit the
\* trend-change notification, after which the extreme price is the
\* triggering price and the new action is stored.
C26_ActionChangeAnnounced ==
    (HandedToTracker /\ last.result.action # last.prev_trend.last_action
                     /\ last.prev_trend.extreme_price # None) =>
        /\ last.trend_change
        /\ price_trends[LastSymbol].extreme_price = last.result.latest_price
        /\ price_trends[LastSymbol].last_action = last.result.action

C28_CrossingPriceAppended ==
    /\ (Gated /\ pc # "Handling") =>
          LET full_prices == symbol_data[LastSymbol].full_prices
          IN /\ Len(full_prices) = last.result.num_samples + 1
             /\ full_prices[Len(full_prices)] = last.result.latest_price
    /\ (last.kind = "short" /\ pc # "Handling") =>
          \A s \in DOMAIN symbol_data :
             Len(symbol_data[s].full_prices) \in {Len(Good1), Len(Good2)}

\* ----------------------------------------------------------- fan-out claims
\* C29: a call of process_symbols returns the detection results and leaves
\* the trend state, the last-processed prices, the symbol set and the
\* threshold store as they were.
C29_FanOutPure ==
    [][fan' # fan =>
          /\ ~fan'.parallel.raised
          /\ UNCHANGED <<price_trends, last_processed_price, symbols, symbol_data,
                         config, cfg_file>>]_vars

\* -------------------------------------------------------------- retry claims
\* C30: the fetch of one symbol makes at most StopAfterAttempt attempts;
\* every attempt before its last met a retryable failure; it stops on a
\* retryable failure only at attempt StopAfterAttempt, and then the symbol's
\* fetch fails; a reply on any attempt ends it with that reply.
C30_AtMostFiveAttempts ==
    Fetching =>
        \A s \in call.symbols :
            LET plan == call.plans[s]
                n == call.attempts[s]
                out == call.each[s]
            IN /\ n \in 1..StopAfterAttempt
               /\ \A i \in 1..(n - 1) : plan[i] \in Retryable
               /\ plan[n] \in Retryable => (n = StopAfterAttempt /\ out.raised)
               /\ plan[n] \in {"bars", "no bars"} =>
                     /\ ~out.raised
                     /\ out.results = [symbol |-> s, empty |-> plan[n] = "no bars"]

\* C30 witness: four time-outs, bars on the fifth attempt.
C30_Witness ==
    /\ Fetching
    /\ "A" \in call.symbols
    /\ call.plans["A"] = Repeat("TimeoutError", StopAfterAttempt - 1) \o <<"bars">>
    /\ call.attempts["A"] = StopAfterAttempt
    /\ ~call.each["A"].raised

\* ------------------------------------------------------- baseline session
LookbackDays == 30
MaxDay == 5
NoDay == 0

RECURSIVE SortedSeq(_)
SortedSeq(S) ==
    IF S = {} THEN << >>
    ELSE LET m == CHOOSE x \in S : \A y \in S : x <= y
         IN <<m>> \o SortedSeq(S \ {m})

\* nyse.valid_days(start_date, end_date): the trading days of the calendar
\* in the window, in order.
nyse_valid_days(calendar, start_date, end_date) ==
    SortedSeq({ d \in calendar : start_date <= d /\ d <= end_date })

\* The baseline day of initialize_symbol_data: valid_days[-2] of the fetch
\* window, None with fewer than two trading days in it.
last_valid_day(calendar, start_date, end_date) ==
    LET valid_days == nyse_valid_days(calendar, start_date, end_date)
    IN IF Len(valid_days) > 1 THEN valid_days[Len(valid_days) - 1] ELSE NoDay

\* The live-mode branch of initialize_data followed by the choice of the
\* baseline day: end_date is today, start_date is
\* valid_dates[max(-len(valid_dates), -ndays)]; indexing an empty
\* valid_dates raises.
baseline_session(calendar, today, ndays) ==
    LET valid_dates == nyse_valid_days(calendar, today - LookbackDays, today)
        n == Len(valid_dates)
    IN IF n = 0 THEN Raised("IndexError")
       ELSE LET start_date == valid_dates[n - (IF ndays < n THEN ndays ELSE n) + 1]
            IN Returned(last_valid_day(calendar, start_date, today))

\* One live-mode start: a trading calendar, a current date and --ndays.
SelectBaseline ==
    /\ call = NoCall
    /\ \E calendar \in SUBSET (1..MaxDay), today \in 1..MaxDay, ndays \in 1..3 :
         call' = [fn |-> "baseline_session", calendar |-> calendar,
                  today |-> today, ndays |-> ndays,
                  out |-> baseline_session(calendar, today, ndays)]
    /\ UNCHANGED <<stream_type, parallel_processor, fan, start_vars, data_vars,
                   cfg_vars, pc, conn_vars, events, msg_vars>>

BaselineInit == Init /\ stream_type = "trades" /\ cfg_file = FileJson(ConfigLow)
BaselineNext == SelectBaseline
BaselineSpec == BaselineInit /\ [][BaselineNext]_vars

Selected ==
    call.fn = "baseline_session" /\ ~call.out.raised /\ call.out.results # NoDay

\* C31: in live mode a selected baseline session is a trading session
\* before the current day, and no trading session lies between it and the
\* current day, whether the current day is a trading day or not.
C31_BaselineIsLatestPriorSession ==
    Selected =>
        /\ call.out.results \in call.calendar
        /\ call.out.results < call.today
        /\ ~\E d \in call.calendar :
               call.out.results < d /\ d < call.today

\* ------------------------------------------------------- the active set
Calibrated_pc == pc \notin {"Starting", "Disconnected"}
RemovedSymbols == requested \ symbols
Evaluated(s) ==
    \/ pc = "Handling" /\ pending.symbol = s
    \/ last.kind \in {"short", "gated"} /\ last.result.symbol = s
Subscribed(s) ==
    \E c \in DOMAIN subs : \E i \in 1..Len(subs[c]) : s \in subs[c][i]

\* C32: from the end of calibration on, no step adds a symbol to the symbol
\* list or a series to the series map; a symbol calibration removed has no
\* series, is in no subscription sent on any connection, and no detector
\* result is ever produced for it.
C32_RemovedStaysRemoved ==
    /\ [][Calibrated_pc => /\ symbols' \subseteq symbols
                           /\ DOMAIN symbol_data' \subseteq DOMAIN symbol_data]_vars
    /\ [](Calibrated_pc =>
            \A s \in RemovedSymbols :
                /\ s \notin DOMAIN symbol_data
                /\ ~Subscribed(s)
                /\ ~Evaluated(s))

\* C32 witness: B was removed by calibration; after a reconnect and a new
\* subscription a trade of B arrives and is dropped.
C32_Witness ==
    /\ pc = "Listening"
    /\ "B" \in RemovedSymbols
    /\ websocket = 2 /\ subs[2] # << >>
    /\ last.kind = "dropped"
    /\ Dispatch(stream_type, last.msg).symbol = "B"

\* ---------------------------------------------------- one handler at a time
Handler == <<price_trends, last_processed_price>>

\* C33: a detector result is taken up only while no other result awaits the
\* gate; a result awaits the gate exactly while its handler runs; trend
\* state and last-processed prices change only in the step that ends that
\* handler, and only for the symbol of its result.
C33_HandlersDoNotInterleave ==
    /\ [](pc = "Handling" <=> pending # NoResult)
    /\ [][(pending' # pending /\ pending' # NoResult) =>
             (pc = "Listening" /\ pending = NoResult)]_vars
    /\ [][Handler' # Handler =>
             /\ GateStep
             /\ pending' = NoResult
             /\ \A s \in Symbols \ {pending.symbol} :
                    /\ price_trends'[s] = price_trends[s]
                    /\ last_processed_price'[s] = last_processed_price[s]]_vars

\* C33 witness: two updates handled one after the other, the second one
\* stored as the last-processed price of its symbol.
C33_Witness ==
    /\ pc = "Listening"
    /\ last.kind = "gated" /\ last.prev_kind = "gated"
    /\ last_processed_price[last.result.symbol] = last.result.latest_price
    /\ price_trends[last.result.symbol] # NewTrend

\* ------------------------------------------------- the gate and the flags
\* C34: for a result with a numeric trend z-score, the gate opens exactly
\* when the result's alert flag and its zscore_trend_alert flag are both
\* set, whatever the watch thread did between the detector's reading of the
\* thresholds and the gate's.
C34_GateAgreesWithFlags ==
    [][(GateStep /\ pending.zscore_trend.kind = "num") =>
          (last'.entered <=> (pending.alert /\ pending.zscore_trend_alert))]_vars

\* ------------------------------------------------------ open connections
\* C35: at most one connection is open at any moment, and connect() opens
\* a connection only when none is open.
C35_AtMostOneOpenConnection ==
    /\ [](Cardinality(open_conns) <= 1)
    /\ [][conn_count' # conn_count => open_conns = {}]_vars

====
